---- MODULE Spec2Model ----
(***************************************************************************)
(* Model of grovedbg's partial-tree reconstruction model (src/src/model.rs):*)
(* the Tree / Subtree / Node aggregate and its insert / remove / unload     *)
(* algorithms.                                                              *)
(*                                                                          *)
(* Key is modelled by a small integer (a one-byte key), Option<Key> by a    *)
(* sequence of length 0 or 1, Path by a sequence of keys, BTreeMap by a     *)
(* function on the set of its keys, BTreeSet / HashSet by a set.            *)
(***************************************************************************)
EXTENDS Integers, Sequences, FiniteSets, TLC

VARIABLES
    subtree,    \* one Subtree value driven directly by Subtree::insert / remove / set_root
    arrival,    \* the binary tree being fetched into subtree and the order of arrival so far
    subtrees,   \* Tree::subtrees, the index Path -> Subtree of one Tree
    panicked,   \* TRUE once an expect() of the Tree has failed
    last,       \* the operation performed by the last step
    steps,      \* number of operations performed so far
    queue,      \* requests sent by the presentation side, not yet processed
    trees       \* one trees::Tree, the high-level model of src/src/trees.rs

vars == <<subtree, arrival, subtrees, panicked, last, steps, queue, trees>>

----------------------------------------------------------------------------
(* Bounds *)

\* number of distinct keys offered to a single Subtree
NKeys == 3

\* number of operations in one run of the Subtree specification
MaxOps == 4

Keys == 1..NKeys

\* number of distinct keys used as node keys and path segments of a Tree
NTreeKeys == 2

\* greatest length of a path handed to a Tree operation
MaxDepth == 2

\* number of operations in one run of the Tree specification
MaxTreeOps == 3

\* number of requests the presentation side sends in one run
MaxSends == 3

\* greatest length of a path handed to populate_subtrees_chain on its own
MaxPopDepth == 4

\* length of the paths of the deep inserts made before any root is known
DeepLen == 2

\* number of deep inserts made before the root node arrives
MaxDeepInserts == 2

\* greatest length of the paths inserted at and referenced in the Reference
\* specification, and the number of inserts in one of its runs
RefDepth == 1

MaxRefOps == 2

TKeys == 1..NTreeKeys

----------------------------------------------------------------------------
(* Option<Key> *)

None == <<>>

Some(k) == <<k>>

\* Option::iter: the set of values an option holds
OptIter(o) == {o[i] : i \in DOMAIN o}

OptKeys(K) == {None} \cup {Some(k) : k \in K}

----------------------------------------------------------------------------
(* Element and Node *)

Item == [tag |-> "Item"]

SubtreePlaceholder == [tag |-> "SubtreePlaceholder"]

ElSubtree(root_key) == [tag |-> "Subtree", root_key |-> root_key]

ElSumtree(root_key, sum) == [tag |-> "Sumtree", root_key |-> root_key, sum |-> sum]

\* Element::Reference { path, key }
ElReference(path, key) == [tag |-> "Reference", path |-> path, key |-> key]

IsLink(element) == element.tag \in {"Subtree", "Sumtree"}

Node(element, left, right) ==
    [element |-> element, left_child |-> left, right_child |-> right]

new_subtree_pacehodler == Node(SubtreePlaceholder, None, None)

\* the keys a node lists as its left or right child
ChildKeys(node) == OptIter(node.left_child) \cup OptIter(node.right_child)

----------------------------------------------------------------------------
(* Subtree *)

EmptyMap == [k \in {} |-> None]

MapRemove(m, k) == [j \in DOMAIN m \ {k} |-> m[j]]

MapInsert(m, k, v) == [j \in DOMAIN m \cup {k} |-> IF j = k THEN v ELSE m[j]]

SubtreeDefault ==
    [root_node     |-> None,
     cluster_roots |-> {},
     nodes         |-> EmptyMap,
     waitlist      |-> {},
     ui_state      |-> [expanded |-> FALSE, visible |-> FALSE]]

\* variant: set_root that leaves the new root among the cluster roots
SubtreeSetRootKeepsCluster(st, root_node) ==
    [st EXCEPT !.root_node = Some(root_node)]

SubtreeSetRoot(st, root_node) ==
    [st EXCEPT !.cluster_roots = @ \ {root_node},
               !.root_node = Some(root_node)]

SubtreeRemove(st, key) ==
    IF key \notin DOMAIN st.nodes THEN st
    ELSE
      LET node == st.nodes[key]
          nodes1 == MapRemove(st.nodes, key)
          wl1 == (st.waitlist \ OptIter(node.left_child)) \ OptIter(node.right_child)
          cr1 == st.cluster_roots
                   \cup {c \in OptIter(node.left_child) : c \in DOMAIN nodes1}
          cr2 == cr1 \cup {c \in OptIter(node.right_child) : c \in DOMAIN nodes1}
          wl2 == IF st.root_node # Some(key) /\ key \notin cr2
                 THEN wl1 \cup {key}
                 ELSE wl1
      IN [st EXCEPT !.nodes = nodes1, !.waitlist = wl2, !.cluster_roots = cr2]

\* child_updates that forgets to take the child out of cluster_roots
child_updates_keeps_cluster(st, child_key) ==
    [st EXCEPT !.waitlist = IF child_key \notin DOMAIN st.nodes
                            THEN @ \cup {child_key}
                            ELSE @]

\* the closure child_updates of Subtree::insert
child_updates(st, child_key) ==
    [st EXCEPT !.waitlist = IF child_key \notin DOMAIN st.nodes
                            THEN @ \cup {child_key}
                            ELSE @,
               !.cluster_roots = @ \ {child_key}]

OptChildUpdates(st, child) ==
    IF child = None THEN st ELSE child_updates(st, child[1])

SubtreeInsert(st, key, node) ==
    LET s1 == SubtreeRemove(st, key)
        waited == key \in s1.waitlist
        s2 == [s1 EXCEPT !.waitlist = @ \ {key},
                         !.cluster_roots =
                             IF ~waited /\ s1.root_node # Some(key)
                             THEN @ \cup {key}
                             ELSE @]
        s3 == OptChildUpdates(s2, node.left_child)
        s4 == OptChildUpdates(s3, node.right_child)
    IN [s4 EXCEPT !.nodes = MapInsert(@, key, node)]

insert_not_exists(st, key, node) ==
    IF key \notin DOMAIN st.nodes THEN SubtreeInsert(st, key, node) ELSE st

\* Subtree::iter_cluster_roots evaluates nodes.get(key).expect(..) for every
\* cluster root: it completes iff every cluster root is a key of nodes
IterClusterRootsOk(st) == st.cluster_roots \subseteq DOMAIN st.nodes

----------------------------------------------------------------------------
(* Tree *)

\* variant: a new Tree that already holds an empty root Subtree
TreeNewWithRoot == MapInsert(EmptyMap, <<>>, SubtreeDefault)

\* Tree::new: Default::default(), an empty index
TreeNew == EmptyMap

\* BTreeMap::entry(path).or_default()
EntryOrDefault(subs, path) ==
    IF path \in DOMAIN subs THEN subs[path] ELSE SubtreeDefault

RECURSIVE PopulateFromOverwrites(_, _, _)
\* variant: the placeholder is inserted whether or not a node is known
PopulateFromOverwrites(subs, path, depth) ==
    IF depth > Len(path) THEN subs
    ELSE
      LET prefix == SubSeq(path, 1, depth)
          st0 == EntryOrDefault(subs, prefix)
          st1 == IF depth < Len(path)
                 THEN SubtreeInsert(st0, path[depth + 1], new_subtree_pacehodler)
                 ELSE st0
      IN PopulateFromOverwrites(MapInsert(subs, prefix, st1), path, depth + 1)

RECURSIVE PopulateFrom(_, _, _)
\* the body of populate_subtrees_chain for depth, depth + 1, ..., path.len()
PopulateFrom(subs, path, depth) ==
    IF depth > Len(path) THEN subs
    ELSE
      LET prefix == SubSeq(path, 1, depth)
          st0 == EntryOrDefault(subs, prefix)
          st1 == IF depth < Len(path)
                 THEN insert_not_exists(st0, path[depth + 1], new_subtree_pacehodler)
                 ELSE st0
      IN PopulateFrom(MapInsert(subs, prefix, st1), path, depth + 1)

\* populate_subtrees_chain that stops one prefix short of path
populate_proper_prefixes(subs, path) ==
    IF path = <<>> THEN subs
    ELSE PopulateFrom(subs, SubSeq(path, 1, Len(path) - 1), 0)

\* variant: only the entry at the full path is created, none of its prefixes
populate_full_path_only(subs, path) == MapInsert(subs, path, EntryOrDefault(subs, path))

\* variant: the chain starts at the first segment, not at the empty prefix
populate_from_first_segment(subs, path) == PopulateFrom(subs, path, 1)

populate_subtrees_chain(subs, path) == PopulateFrom(subs, path, 0)

\* the link branch creating the child entry only when a root key is given
InsertChildSubtreeIfRooted(subs, path, key, node) ==
    IF IsLink(node.element) /\ node.element.root_key # None
    THEN LET child_path == Append(path, key)
         IN MapInsert(subs, child_path,
                      SubtreeSetRoot(EntryOrDefault(subs, child_path),
                                     node.element.root_key[1]))
    ELSE subs

\* variant: a Reference is resolved on insert, creating the Subtree it names
InsertChildSubtreeResolvesRefs(subs, path, key, node) ==
    IF node.element.tag = "Reference"
    THEN MapInsert(subs, node.element.path,
                   EntryOrDefault(subs, node.element.path))
    ELSE IF IsLink(node.element)
    THEN LET child_path == Append(path, key)
             child0 == EntryOrDefault(subs, child_path)
             child1 == IF node.element.root_key # None
                       THEN SubtreeSetRoot(child0, node.element.root_key[1])
                       ELSE child0
         IN MapInsert(subs, child_path, child1)
    ELSE subs

\* the branch of Tree::insert taken for a Subtree / Sumtree element
InsertChildSubtree(subs, path, key, node) ==
    IF IsLink(node.element)
    THEN LET child_path == Append(path, key)
             child0 == EntryOrDefault(subs, child_path)
             child1 == IF node.element.root_key # None
                       THEN SubtreeSetRoot(child0, node.element.root_key[1])
                       ELSE child0
         IN MapInsert(subs, child_path, child1)
    ELSE subs

\* variant: a node already known under key at path is kept
TreeInsertNotExists(subs, path, key, node) ==
    LET s1 == populate_subtrees_chain(subs, path)
        s2 == InsertChildSubtree(s1, path, key, node)
    IN IF path \in DOMAIN s2
       THEN [subtrees |-> [s2 EXCEPT ![path] = insert_not_exists(@, key, node)],
             panicked |-> FALSE]
       ELSE [subtrees |-> s2, panicked |-> TRUE]

\* Tree::insert; panicked is the failure of expect("model was updated")
TreeInsert(subs, path, key, node) ==
    LET s1 == populate_subtrees_chain(subs, path)
        s2 == InsertChildSubtree(s1, path, key, node)
    IN IF path \in DOMAIN s2
       THEN [subtrees |-> [s2 EXCEPT ![path] = SubtreeInsert(@, key, node)],
             panicked |-> FALSE]
       ELSE [subtrees |-> s2, panicked |-> TRUE]

\* variant: remove that takes the entry at path with or_default
TreeRemoveOrDefault(subs, path, key) ==
    MapInsert(subs, path, SubtreeRemove(EntryOrDefault(subs, path), key))

\* variant: a Subtree that loses its last node leaves the index
TreeRemoveDropsEmpty(subs, path, key) ==
    IF path \in DOMAIN subs
    THEN IF DOMAIN SubtreeRemove(subs[path], key).nodes = {}
         THEN MapRemove(subs, path)
         ELSE [subs EXCEPT ![path] = SubtreeRemove(@, key)]
    ELSE subs

TreeRemove(subs, path, key) ==
    IF path \in DOMAIN subs
    THEN [subs EXCEPT ![path] = SubtreeRemove(@, key)]
    ELSE subs

\* variant: unloading forgets the Subtree entry altogether
clear_subtree_drops_entry(subs, path) ==
    [p \in DOMAIN subs \ {path} |-> subs[p]]

clear_subtree(subs, path) ==
    IF path \in DOMAIN subs
    THEN [subs EXCEPT ![path].nodes = EmptyMap]
    ELSE subs

RECURSIVE VecCmp(_, _)
\* Vec<Vec<u8>>::cmp: lexicographic, a proper prefix being Less
VecCmp(a, b) ==
    IF a = <<>> /\ b = <<>> THEN "Equal"
    ELSE IF a = <<>> THEN "Less"
    ELSE IF b = <<>> THEN "Greater"
    ELSE IF Head(a) < Head(b) THEN "Less"
    ELSE IF Head(a) > Head(b) THEN "Greater"
    ELSE VecCmp(Tail(a), Tail(b))

\* variant: the derived ordering of the wrapped vector
PathCmpDerived(a, b) == VecCmp(a, b)

\* Ord for Path: len().cmp(..).then_with(|| self.0.cmp(&other.0))
PathCmp(a, b) ==
    IF Len(a) < Len(b) THEN "Less"
    ELSE IF Len(a) > Len(b) THEN "Greater"
    ELSE VecCmp(a, b)

RECURSIVE InOrder(_)
\* the elements of a set of paths in ascending order of PathCmp, as
\* BTreeMap::iter visits its keys
InOrder(S) ==
    IF S = {} THEN <<>>
    ELSE LET least == CHOOSE p \in S : \A q \in S : PathCmp(p, q) # "Greater"
         IN <<least>> \o InOrder(S \ {least})

\* Tree::iter_subtrees: the paths of the SubtreeCtx values it yields
iter_subtrees(subs) == InOrder(DOMAIN subs)

\* LevelInfo::default()
LevelInfoDefault == [n_subtrees |-> 0, max_subtree_size |-> 0, max_clusters |-> 0]

\* cmp::max
Max(a, b) == IF a >= b THEN a ELSE b

\* variant: the declared root is not counted as a cluster
ClusterCountNoRoot(st) == Cardinality(st.cluster_roots)

\* cluster_roots.len() + root_node.as_ref().map(|_| 1).unwrap_or(0)
ClusterCount(st) ==
    Cardinality(st.cluster_roots) + (IF st.root_node # None THEN 1 ELSE 0)

\* the product compared to find the widest level
LevelWeight(info) == info.max_clusters * info.max_subtree_size * info.n_subtrees

RECURSIVE LevelsFold(_, _, _, _)
\* the fold of Tree::levels over the paths it[i], it[i + 1], ...; ok is FALSE
\* once levels[level] has indexed past the end of the vector
LevelsFold(subs, it, i, acc) ==
    IF i > Len(it) \/ ~acc.ok THEN acc
    ELSE
      LET level == Len(it[i])
          st == subs[it[i]]
          pushed == IF Len(acc.levels_info) <= level
                    THEN Append(acc.levels_info, LevelInfoDefault)
                    ELSE acc.levels_info
      IN IF level >= Len(pushed)
         THEN [acc EXCEPT !.ok = FALSE]
         ELSE
           LET old == pushed[level + 1]
               new == [n_subtrees       |-> old.n_subtrees + 1,
                       max_subtree_size |-> Max(old.max_subtree_size,
                                                Cardinality(DOMAIN st.nodes)),
                       max_clusters     |-> Max(old.max_clusters, ClusterCount(st))]
               levels == [pushed EXCEPT ![level + 1] = new]
               widest == IF LevelWeight(levels[level + 1])
                              > LevelWeight(levels[acc.widest_level_idx + 1])
                         THEN level
                         ELSE acc.widest_level_idx
           IN LevelsFold(subs, it, i + 1,
                         [levels_info |-> levels, widest_level_idx |-> widest,
                          ok |-> TRUE])

\* Tree::levels
levels(subs) ==
    LevelsFold(subs, iter_subtrees(subs), 1,
               [levels_info |-> <<>>, widest_level_idx |-> 0, ok |-> TRUE])

\* Tree::get_subtree and Tree::get_node, an Option as a sequence
get_subtree(subs, path) ==
    IF path \in DOMAIN subs THEN Some(subs[path]) ELSE None

get_node(subs, path, key) ==
    IF path \in DOMAIN subs /\ key \in DOMAIN subs[path].nodes
    THEN Some(subs[path].nodes[key])
    ELSE None

TreeSetRoot(subs, root_key) ==
    LET st == SubtreeSetRoot(EntryOrDefault(subs, <<>>), root_key)
    IN MapInsert(subs, <<>>, [st EXCEPT !.ui_state.visible = TRUE])

----------------------------------------------------------------------------
(* The high-level model trees::Tree (src/src/trees.rs): GroveDB subtrees as *)
(* nodes, each with its inner tree                                          *)

\* InnerTreeNodeValue
Scalar == [tag |-> "Scalar"]

ValueSubtree(root_key) == [tag |-> "Subtree", root_key |-> root_key]

ValueReference(path, key) == [tag |-> "Reference", path |-> path, key |-> key]

InnerTreeNode(value, left, right) == [value |-> value, left |-> left, right |-> right]

\* InnerTree::default()
InnerTreeDefault == [root_node_key |-> None, nodes |-> EmptyMap]

\* SubtreeNode::default(); parent_path is an Option<Path>
SubtreeNodeDefault ==
    [key           |-> None,
     parent_path   |-> None,
     children      |-> {},
     inner_tree    |-> InnerTreeDefault,
     referred_keys |-> {}]

\* the value of the variable trees while no trees::Tree has been created
NoTrees ==
    [subtrees |-> EmptyMap, levels_count |-> <<>>, updated |-> FALSE,
     max_children_count |-> 0]

\* trees::Tree::new
trees_new(root_subtree_inner_tree_key) ==
    [subtrees |-> MapInsert(EmptyMap, <<>>,
                    [SubtreeNodeDefault EXCEPT
                        !.inner_tree.root_node_key = Some(root_subtree_inner_tree_key)]),
     levels_count |-> <<1>>,
     updated |-> TRUE,
     max_children_count |-> 1]

\* Vec::resize(new_len, 0)
Resize(vec, new_len) ==
    [i \in 1..new_len |-> IF i <= Len(vec) THEN vec[i] ELSE 0]

\* variant: the counter of the level is incremented whether or not an entry
\* was created
count_level_always(levels_count, created, level) ==
    LET resized == IF level >= Len(levels_count)
                   THEN Resize(levels_count, level + 1)
                   ELSE levels_count
    IN [resized EXCEPT ![level + 1] = @ + 1]

\* if created { resize if needed; self.levels_count[level] += 1 }
count_level(levels_count, created, level) ==
    IF created
    THEN LET resized == IF level >= Len(levels_count)
                        THEN Resize(levels_count, level + 1)
                        ELSE levels_count
         IN [resized EXCEPT ![level + 1] = @ + 1]
    ELSE levels_count

\* Tree::get_or_create_child_subtree; created tells whether the entry was
\* vacant
get_or_create_child_subtree(tree, subtree_path) ==
    IF subtree_path \notin DOMAIN tree.subtrees
    THEN LET key == IF subtree_path = <<>> THEN None
                    ELSE Some(subtree_path[Len(subtree_path)])
             parent_path == IF subtree_path = <<>> THEN <<>>
                            ELSE SubSeq(subtree_path, 1, Len(subtree_path) - 1)
             node == [SubtreeNodeDefault EXCEPT !.key = key,
                                                !.parent_path = Some(parent_path)]
         IN [created |-> TRUE,
             tree |-> [tree EXCEPT !.subtrees = MapInsert(@, subtree_path, node)]]
    ELSE [created |-> FALSE, tree |-> tree]

RECURSIVE RecursiveWithoutChildren(_, _, _)
\* variant: the walk creates the entries without listing them in their
\* parents
RecursiveWithoutChildren(tree, path, current_level) ==
    LET current_path == SubSeq(path, 1, current_level)
        got == get_or_create_child_subtree(tree, current_path)
        counted == [got.tree EXCEPT
                       !.levels_count = count_level(@, got.created, current_level)]
    IN IF current_level < Len(path)
       THEN RecursiveWithoutChildren(counted, path, current_level + 1)
       ELSE counted

RECURSIVE RecursiveFrom(_, _, _)
\* the loop of get_or_create_subtree_recursive from current_level on
RecursiveFrom(tree, path, current_level) ==
    LET current_path == SubSeq(path, 1, current_level)
        got == get_or_create_child_subtree(tree, current_path)
        listed == IF current_level < Len(path)
                  THEN [got.tree EXCEPT
                           !.subtrees[current_path].children =
                               @ \cup {path[current_level + 1]}]
                  ELSE got.tree
        counted == [listed EXCEPT
                       !.levels_count = count_level(@, got.created, current_level)]
    IN IF current_level < Len(path)
       THEN RecursiveFrom(counted, path, current_level + 1)
       ELSE counted

\* Tree::get_or_create_subtree_recursive
get_or_create_subtree_recursive(tree, path) == RecursiveFrom(tree, path, 0)

\* the branch of trees::Tree::insert for a Subtree value
InsertSubtreeValue(tree, path, key, node) ==
    IF node.value.tag = "Subtree"
    THEN LET child_path == Append(path, key)
             got == get_or_create_child_subtree(tree, child_path)
         IN [got.tree EXCEPT
                !.subtrees[child_path].inner_tree.root_node_key = node.value.root_key,
                !.subtrees[path].children = @ \cup {key},
                !.levels_count = count_level(@, got.created, Len(path) + 1)]
    ELSE tree

\* trees::Tree::insert; panicked is the failure of the expect("inserted
\* above") on the Subtree a Reference names, the tree being then the one
\* left behind by the steps before it
trees_insert(tree, path, key, node) ==
    LET walked == get_or_create_subtree_recursive(tree, path)
        linked == InsertSubtreeValue(walked, path, key, node)
    IN IF node.value.tag = "Reference" /\ node.value.path \notin DOMAIN linked.subtrees
       THEN [tree |-> linked, panicked |-> TRUE]
       ELSE LET referred ==
                    IF node.value.tag = "Reference"
                    THEN [linked EXCEPT
                             !.subtrees[node.value.path].referred_keys =
                                 @ \cup {node.value.key}]
                    ELSE linked
            IN [tree |-> [referred EXCEPT
                            !.subtrees[path].inner_tree.nodes = MapInsert(@, key, node)],
                panicked |-> FALSE]

----------------------------------------------------------------------------
(* Specification SpecSubtree: one Subtree under any sequence of             *)
(* Subtree::insert / remove / set_root                                      *)

\* nodes offered to Subtree::insert: any combination of child links
ItemNodes == {Node(Item, l, r) : l \in OptKeys(Keys), r \in OptKeys(Keys)}

NoArrival == [tree |-> EmptyMap, root |-> None, order |-> <<>>]

InitSubtree ==
    /\ subtree = SubtreeDefault
    /\ arrival = NoArrival
    /\ subtrees = TreeNew
    /\ panicked = FALSE
    /\ last = [op |-> "new"]
    /\ steps = 0
    /\ queue = <<>>
    /\ trees = NoTrees

DoInsert(key, node) ==
    /\ steps < MaxOps
    /\ subtree' = SubtreeInsert(subtree, key, node)
    /\ last' = [op |-> "insert"]
    /\ steps' = steps + 1
    /\ UNCHANGED <<trees, arrival, subtrees, panicked, queue>>

DoRemove(key) ==
    /\ steps < MaxOps
    /\ subtree' = SubtreeRemove(subtree, key)
    /\ last' = [op |-> "remove"]
    /\ steps' = steps + 1
    /\ UNCHANGED <<trees, arrival, subtrees, panicked, queue>>

DoSetRoot(key) ==
    /\ steps < MaxOps
    /\ subtree' = SubtreeSetRoot(subtree, key)
    /\ last' = [op |-> "set_root"]
    /\ steps' = steps + 1
    /\ UNCHANGED <<trees, arrival, subtrees, panicked, queue>>

NextSubtree ==
    \/ \E key \in Keys, node \in ItemNodes : DoInsert(key, node)
    \/ \E key \in Keys : DoRemove(key)
    \/ \E key \in Keys : DoSetRoot(key)

SpecSubtree == InitSubtree /\ [][NextSubtree]_vars

----------------------------------------------------------------------------
(* Specification SpecArrival: the nodes of one binary tree are fetched into *)
(* an empty Subtree, each exactly once and in any order, and the root is    *)
(* declared at any point                                                    *)

\* the keys reachable from the keys of frontier through child links of t
RECURSIVE ReachableFrom(_, _, _)
ReachableFrom(t, frontier, seen) ==
    IF frontier = {} THEN seen
    ELSE LET next == (UNION {ChildKeys(t[k]) : k \in frontier} \cap DOMAIN t)
                        \ (seen \cup frontier)
         IN ReachableFrom(t, next, seen \cup frontier)

Parents(t, k) == {p \in DOMAIN t : k \in ChildKeys(t[p])}

\* t is a binary tree rooted at r: children are nodes of t, left and right
\* differ, every key has at most one parent, the root has none, and every
\* node hangs under the root
IsBinaryTree(t, r) ==
    /\ r \in DOMAIN t
    /\ \A k \in DOMAIN t :
         /\ ChildKeys(t[k]) \subseteq DOMAIN t
         /\ t[k].left_child # None => t[k].left_child # t[k].right_child
         /\ Cardinality(Parents(t, k)) <= 1
    /\ Parents(t, r) = {}
    /\ ReachableFrom(t, {r}, {}) = DOMAIN t

NodesOver(S) == {Node(Item, l, r) : l \in OptKeys(S), r \in OptKeys(S)}

InitArrival ==
    /\ subtree = SubtreeDefault
    /\ \E S \in SUBSET Keys : \E t \in [S -> NodesOver(S)] : \E r \in S :
         /\ IsBinaryTree(t, r)
         /\ arrival = [tree |-> t, root |-> Some(r), order |-> <<>>]
    /\ subtrees = TreeNew
    /\ panicked = FALSE
    /\ last = [op |-> "new"]
    /\ steps = 0
    /\ queue = <<>>
    /\ trees = NoTrees

\* what has arrived so far: Some(k) for node k, None for the root declaration
Arrived == {arrival.order[i] : i \in DOMAIN arrival.order}

ArriveNode(key) ==
    /\ key \in DOMAIN arrival.tree
    /\ Some(key) \notin Arrived
    /\ subtree' = SubtreeInsert(subtree, key, arrival.tree[key])
    /\ arrival' = [arrival EXCEPT !.order = Append(@, Some(key))]
    /\ last' = [op |-> "insert"]
    /\ UNCHANGED <<trees, subtrees, panicked, steps, queue>>

ArriveRoot ==
    /\ None \notin Arrived
    /\ subtree' = SubtreeSetRoot(subtree, arrival.root[1])
    /\ arrival' = [arrival EXCEPT !.order = Append(@, None)]
    /\ last' = [op |-> "set_root"]
    /\ UNCHANGED <<trees, subtrees, panicked, steps, queue>>

NextArrival ==
    \/ \E key \in Keys : ArriveNode(key)
    \/ ArriveRoot

SpecArrival == InitArrival /\ [][NextArrival]_vars

ArrivalDone ==
    Arrived = {Some(k) : k \in DOMAIN arrival.tree} \cup {None}

----------------------------------------------------------------------------
(* Specification SpecTree: one Tree under any sequence of Tree::insert /    *)
(* remove / clear_subtree / set_root                                        *)

RECURSIVE SeqsUpTo(_, _)
\* sequences over S of length at most n
SeqsUpTo(S, n) ==
    IF n = 0 THEN {<<>>}
    ELSE LET shorter == SeqsUpTo(S, n - 1)
         IN shorter \cup {Append(p, k) : p \in shorter, k \in S}

Paths == SeqsUpTo(TKeys, MaxDepth)

\* nodes offered to Tree::insert: scalar items and links to child subtrees
\* (with or without a root key), childless or with child links
TreeElements ==
    {Item} \cup {ElSubtree(o) : o \in OptKeys(TKeys)} \cup {ElSumtree(Some(1), 0)}

TreeNodes ==
    {Node(e, None, None) : e \in TreeElements}
      \cup {Node(e, Some(k), None) : e \in {Item, ElSubtree(None)}, k \in TKeys}
      \cup {Node(Item, Some(1), Some(NTreeKeys))}

InitTree ==
    /\ subtree = SubtreeDefault
    /\ arrival = NoArrival
    /\ subtrees = TreeNew
    /\ panicked = FALSE
    /\ last = [op |-> "new"]
    /\ steps = 0
    /\ queue = <<>>
    /\ trees = NoTrees

DoTreeInsert(path, key, node) ==
    /\ ~panicked
    /\ steps < MaxTreeOps
    /\ LET res == TreeInsert(subtrees, path, key, node)
       IN /\ subtrees' = res.subtrees
          /\ panicked' = res.panicked
    /\ last' = [op |-> "insert"]
    /\ steps' = steps + 1
    /\ UNCHANGED <<trees, subtree, arrival, queue>>

DoTreeRemove(path, key) ==
    /\ ~panicked
    /\ steps < MaxTreeOps
    /\ subtrees' = TreeRemove(subtrees, path, key)
    /\ last' = [op |-> "remove"]
    /\ steps' = steps + 1
    /\ UNCHANGED <<trees, subtree, arrival, panicked, queue>>

DoClearSubtree(path) ==
    /\ ~panicked
    /\ steps < MaxTreeOps
    /\ subtrees' = clear_subtree(subtrees, path)
    /\ last' = [op |-> "clear_subtree", path |-> path]
    /\ steps' = steps + 1
    /\ UNCHANGED <<trees, subtree, arrival, panicked, queue>>

DoTreeSetRoot(key) ==
    /\ ~panicked
    /\ steps < MaxTreeOps
    /\ subtrees' = TreeSetRoot(subtrees, key)
    /\ last' = [op |-> "set_root"]
    /\ steps' = steps + 1
    /\ UNCHANGED <<trees, subtree, arrival, panicked, queue>>

NextTree ==
    \/ \E path \in Paths, key \in TKeys, node \in TreeNodes : DoTreeInsert(path, key, node)
    \/ \E path \in Paths, key \in TKeys : DoTreeRemove(path, key)
    \/ \E path \in Paths : DoClearSubtree(path)
    \/ \E key \in TKeys : DoTreeSetRoot(key)

SpecTree == InitTree /\ [][NextTree]_vars

----------------------------------------------------------------------------
(* Specification SpecFetch: the presentation side sends FetchNode and       *)
(* UnloadSubtree requests for what it draws; the ingest side drains them in *)
(* arrival order, one fetch-and-apply at a time                             *)

\* Message::FetchNode { path, key }; unloaded is a history field: TRUE once
\* clear_subtree(path) has been applied while the request was waiting
FetchNode(path, key) ==
    [type |-> "FetchNode", path |-> path, key |-> key, unloaded |-> FALSE]

\* Message::UnloadSubtree { path }
UnloadSubtree(path) == [type |-> "UnloadSubtree", path |-> path]

\* fetch_root: a new Tree with the fetched root node inserted under its key
InitFetch ==
    /\ \E key \in TKeys, node \in TreeNodes :
         subtrees = TreeInsert(TreeSetRoot(TreeNew, key), <<>>, key, node).subtrees
    /\ panicked = FALSE
    /\ queue = <<>>
    /\ trees = NoTrees
    /\ last = [op |-> "fetch_root"]
    /\ steps = 0
    /\ subtree = SubtreeDefault
    /\ arrival = NoArrival

\* "Fetch root" of a drawn Subtree, or the child button of a drawn node
SendFetchNode(path, key) ==
    /\ steps < MaxSends
    /\ path \in DOMAIN subtrees
    /\ \/ subtrees[path].root_node = Some(key)
       \/ \E k \in DOMAIN subtrees[path].nodes : key \in ChildKeys(subtrees[path].nodes[k])
    /\ queue' = Append(queue, FetchNode(path, key))
    /\ last' = [op |-> "send"]
    /\ steps' = steps + 1
    /\ UNCHANGED <<trees, subtree, arrival, subtrees, panicked>>

\* "Unload" of a drawn Subtree
SendUnloadSubtree(path) ==
    /\ steps < MaxSends
    /\ path \in DOMAIN subtrees
    /\ queue' = Append(queue, UnloadSubtree(path))
    /\ last' = [op |-> "send"]
    /\ steps' = steps + 1
    /\ UNCHANGED <<trees, subtree, arrival, subtrees, panicked>>

\* the ingest side takes a FetchNode request, fetches the node and applies it
ProcessFetchNode(node) ==
    /\ ~panicked
    /\ queue # <<>>
    /\ Head(queue).type = "FetchNode"
    /\ LET msg == Head(queue)
           res == TreeInsert(subtrees, msg.path, msg.key, node)
       IN /\ subtrees' = res.subtrees
          /\ panicked' = res.panicked
          /\ last' = [op |-> "fetched", path |-> msg.path, key |-> msg.key,
                      node |-> node, unloaded |-> msg.unloaded]
    /\ queue' = Tail(queue)
    /\ UNCHANGED <<trees, subtree, arrival, steps>>

\* the ingest side takes an UnloadSubtree request; no waiting request is
\* withdrawn
ProcessUnloadSubtree ==
    /\ ~panicked
    /\ queue # <<>>
    /\ Head(queue).type = "UnloadSubtree"
    /\ LET path == Head(queue).path
       IN /\ subtrees' = clear_subtree(subtrees, path)
          /\ queue' = [i \in 1..(Len(queue) - 1) |->
                         LET msg == queue[i + 1]
                         IN IF msg.type = "FetchNode" /\ msg.path = path
                            THEN [msg EXCEPT !.unloaded = TRUE]
                            ELSE msg]
          /\ last' = [op |-> "unloaded", path |-> path]
    /\ UNCHANGED <<trees, subtree, arrival, panicked, steps>>

NextFetch ==
    \/ \E path \in DOMAIN subtrees, key \in TKeys : SendFetchNode(path, key)
    \/ \E path \in DOMAIN subtrees : SendUnloadSubtree(path)
    \/ \E node \in TreeNodes : ProcessFetchNode(node)
    \/ ProcessUnloadSubtree

SpecFetch == InitFetch /\ [][NextFetch]_vars

----------------------------------------------------------------------------
(* Specification SpecPopulate: populate_subtrees_chain applied to a new     *)
(* Tree, as in tests::model_populate_subtrees_chain                         *)

PopulatePaths == SeqsUpTo(Keys, MaxPopDepth)

InitPopulate ==
    /\ subtrees = TreeNew
    /\ panicked = FALSE
    /\ queue = <<>>
    /\ trees = NoTrees
    /\ last = [op |-> "new"]
    /\ steps = 0
    /\ subtree = SubtreeDefault
    /\ arrival = NoArrival

DoPopulate(path) ==
    /\ last.op = "new"
    /\ subtrees' = populate_subtrees_chain(subtrees, path)
    /\ last' = [op |-> "populate_subtrees_chain", path |-> path]
    /\ steps' = steps + 1
    /\ UNCHANGED <<trees, subtree, arrival, panicked, queue>>

NextPopulate == \E path \in PopulatePaths : DoPopulate(path)

SpecPopulate == InitPopulate /\ [][NextPopulate]_vars

----------------------------------------------------------------------------
(* Specification SpecDeep: the first updates are not the root, as in        *)
(* tests::model_insert_nested_sumtree_node_at_empty: nodes are inserted     *)
(* under deep paths of a new Tree, then a node of the root Subtree that     *)
(* lists the synthesized placeholders as its children is inserted and       *)
(* designated root                                                          *)

DeepPaths == {path \in SeqsUpTo(TKeys, DeepLen) : Len(path) = DeepLen}

\* the nodes inserted under the deep paths: childless items and links
DeepNodes == {Node(e, None, None) : e \in TreeElements}

\* the keys of st under which a placeholder is held
PlaceholderKeys(st) ==
    {k \in DOMAIN st.nodes : st.nodes[k].element = SubtreePlaceholder}

InitDeep ==
    /\ subtrees = TreeNew
    /\ panicked = FALSE
    /\ queue = <<>>
    /\ trees = NoTrees
    /\ last = [op |-> "new"]
    /\ steps = 0
    /\ subtree = SubtreeDefault
    /\ arrival = NoArrival

DeepInsert(path, key, node) ==
    /\ last.op \in {"new", "deep_insert"}
    /\ steps < MaxDeepInserts
    /\ LET res == TreeInsert(subtrees, path, key, node)
       IN /\ subtrees' = res.subtrees
          /\ panicked' = res.panicked
    /\ last' = [op |-> "deep_insert"]
    /\ steps' = steps + 1
    /\ UNCHANGED <<trees, subtree, arrival, queue>>

\* a node of the root Subtree having the placeholders as left and right child
RootInsert(key, left, right) ==
    /\ last.op = "deep_insert"
    /\ ~panicked
    /\ key \notin DOMAIN subtrees[<<>>].nodes
    /\ OptIter(left) \cup OptIter(right) = PlaceholderKeys(subtrees[<<>>])
    /\ left # right
    /\ LET res == TreeInsert(subtrees, <<>>, key, Node(Item, left, right))
       IN /\ subtrees' = res.subtrees
          /\ panicked' = res.panicked
    /\ last' = [op |-> "root_insert", key |-> key]
    /\ UNCHANGED <<trees, subtree, arrival, queue, steps>>

\* Subtree::set_root of the root Subtree with the key just inserted
DeclareRoot ==
    /\ last.op = "root_insert"
    /\ ~panicked
    /\ subtrees' = [subtrees EXCEPT ![<<>>] = SubtreeSetRoot(@, last.key)]
    /\ last' = [op |-> "set_root", key |-> last.key]
    /\ UNCHANGED <<trees, subtree, arrival, queue, steps, panicked>>

NextDeep ==
    \/ \E path \in DeepPaths, key \in TKeys, node \in DeepNodes : DeepInsert(path, key, node)
    \/ \E key \in Keys, left \in OptKeys(TKeys), right \in OptKeys(TKeys) :
           RootInsert(key, left, right)
    \/ DeclareRoot

SpecDeep == InitDeep /\ [][NextDeep]_vars

----------------------------------------------------------------------------
(* Specification SpecRef: Tree::insert of nodes holding a Reference to a    *)
(* known or unknown (path, key), among inserts of plain nodes               *)

RefPaths == SeqsUpTo(TKeys, RefDepth)

RefNodes == {Node(ElReference(path, key), None, None) : path \in RefPaths, key \in TKeys}

InitRef ==
    /\ subtrees = TreeNew
    /\ panicked = FALSE
    /\ queue = <<>>
    /\ trees = NoTrees
    /\ last = [op |-> "new"]
    /\ steps = 0
    /\ subtree = SubtreeDefault
    /\ arrival = NoArrival

\* Tree::insert; last keeps the arguments and the Tree before the call
RefInsert(path, key, node) ==
    /\ ~panicked
    /\ steps < MaxRefOps
    /\ LET res == TreeInsert(subtrees, path, key, node)
       IN /\ subtrees' = res.subtrees
          /\ panicked' = res.panicked
    /\ last' = [op |-> "insert", path |-> path, key |-> key, node |-> node,
                before |-> subtrees]
    /\ steps' = steps + 1
    /\ UNCHANGED <<trees, subtree, arrival, queue>>

NextRef ==
    \E path \in RefPaths, key \in TKeys :
        \E node \in RefNodes \cup {Node(Item, None, None), Node(ElSubtree(None), None, None)} :
            RefInsert(path, key, node)

SpecRef == InitRef /\ [][NextRef]_vars

----------------------------------------------------------------------------
(* Conversion of a received proto record into a Node                        *)
(* (src/src/fetch/proto_conversion.rs)                                      *)

\* Result<T, E>
Ok(value) == [ok |-> TRUE, value |-> value]

Err(error) == [ok |-> FALSE, error |-> error]

ElSumItem == [tag |-> "SumItem"]

\* the variants of grovedbg_grpc::element::Element
ProtoItem == [kind |-> "Item"]

ProtoSumItem == [kind |-> "SumItem"]

ProtoSubtree(root_key) == [kind |-> "Subtree", root_key |-> root_key]

ProtoSumtree(root_key, sum) == [kind |-> "Sumtree", root_key |-> root_key, sum |-> sum]

AbsolutePathReference(path) == [kind |-> "AbsolutePathReference", path |-> path]

UpstreamRootHeightReference(n_keep, path_append) ==
    [kind |-> "UpstreamRootHeightReference", n_keep |-> n_keep,
     path_append |-> path_append]

UpstreamFromElementHeightReference(n_remove, path_append) ==
    [kind |-> "UpstreamFromElementHeightReference", n_remove |-> n_remove,
     path_append |-> path_append]

CousinReference(swap_parent) == [kind |-> "CousinReference", swap_parent |-> swap_parent]

RemovedCousinReference(swap_parent) ==
    [kind |-> "RemovedCousinReference", swap_parent |-> swap_parent]

SiblingReference(sibling_key) == [kind |-> "SiblingReference", sibling_key |-> sibling_key]

\* grovedbg_grpc::NodeUpdate; element is an Option of a grovedbg_grpc::Element,
\* which itself holds an Option of one of the variants above
NodeUpdate(path, key, element, left, right) ==
    [path |-> path, key |-> key, element |-> element,
     left_child |-> left, right_child |-> right]

\* Iterator::take(n) over the segments of a path
Take(path, n) == SubSeq(path, 1, IF n < Len(path) THEN n ELSE Len(path))

\* what is left of the iterator over a path after nth_back(n): the n + 1 last
\* segments are consumed, all of them when the path is not longer than n
AfterNthBack(path, n) ==
    IF Len(path) > n THEN SubSeq(path, 1, Len(path) - (n + 1)) ELSE <<>>

\* a mistaken split, taking the first segment for the key
PopReferenceKeyFirst(path) ==
    IF Len(path) > 0 THEN Ok(ElReference(Tail(path), Head(path)))
    ELSE Err("ReferenceWithoutKey")

\* if let Some(key) = path.pop() { Ok(Reference { path, key }) } else { Err }
PopReference(path) ==
    IF Len(path) > 0
    THEN Ok(ElReference(SubSeq(path, 1, Len(path) - 1), path[Len(path)]))
    ELSE Err("ReferenceWithoutKey")

AbsolutePathReference_try_from(reference) == PopReference(reference.path)

UpstreamRootHeightReference_try_from(path, reference) ==
    PopReference(Take(path, reference.n_keep) \o reference.path_append)

UpstreamFromElementHeightReference_try_from(path, reference) ==
    PopReference(AfterNthBack(path, reference.n_remove) \o reference.path_append)

CousinReference_try_from(path, key, reference) ==
    IF Len(path) > 0
    THEN Ok(ElReference([path EXCEPT ![Len(path)] = reference.swap_parent], key))
    ELSE Err("ReferenceWithoutKey")

RemovedCousinReference_try_from(path, key, reference) ==
    IF Len(path) > 0
    THEN Ok(ElReference(SubSeq(path, 1, Len(path) - 1) \o reference.swap_parent, key))
    ELSE Err("ReferenceWithoutKey")

SiblingReference_from(path, reference) == ElReference(path, reference.sibling_key)

\* #[from] ReferenceWithoutKey: the ? operator wraps the error
EmptyPathReference(result) ==
    IF result.ok THEN result ELSE Err("EmptyPathReference")

\* impl TryFrom<PathKeyCtx<grovedbg_grpc::Element>> for Element
Element_try_from(path, key, proto) ==
    IF proto.element = <<>> THEN Err("NoneElement")
    ELSE LET element == proto.element[1]
         IN CASE element.kind = "Item" -> Ok(Item)
              [] element.kind = "Subtree" -> Ok(ElSubtree(element.root_key))
              [] element.kind = "SumItem" -> Ok(ElSumItem)
              [] element.kind = "Sumtree" -> Ok(ElSumtree(element.root_key, element.sum))
              [] element.kind = "AbsolutePathReference" ->
                    EmptyPathReference(AbsolutePathReference_try_from(element))
              [] element.kind = "UpstreamRootHeightReference" ->
                    EmptyPathReference(UpstreamRootHeightReference_try_from(path, element))
              [] element.kind = "UpstreamFromElementHeightReference" ->
                    EmptyPathReference(
                        UpstreamFromElementHeightReference_try_from(path, element))
              [] element.kind = "CousinReference" ->
                    EmptyPathReference(CousinReference_try_from(path, key, element))
              [] element.kind = "RemovedCousinReference" ->
                    EmptyPathReference(RemovedCousinReference_try_from(path, key, element))
              [] element.kind = "SiblingReference" ->
                    Ok(SiblingReference_from(path, element))

\* impl TryFrom<grovedbg_grpc::NodeUpdate> for Node
Node_try_from(value) ==
    IF value.element = <<>> THEN Err("NoneElement")
    ELSE LET element == Element_try_from(value.path, value.key, value.element[1])
         IN IF element.ok
            THEN Ok(Node(element.value, value.left_child, value.right_child))
            ELSE element

----------------------------------------------------------------------------
(* Specification SpecDecode: one received NodeUpdate is converted to a Node *)

\* n_keep and n_remove range past the longest current path
Heights == 0..(MaxDepth + 1)

ProtoVariants ==
    {ProtoItem, ProtoSumItem, ProtoSumtree(Some(1), 0)}
      \cup {ProtoSubtree(o) : o \in OptKeys(TKeys)}
      \cup {AbsolutePathReference(p) : p \in Paths}
      \cup {UpstreamRootHeightReference(n, p) : n \in Heights, p \in Paths}
      \cup {UpstreamFromElementHeightReference(n, p) : n \in Heights, p \in Paths}
      \cup {CousinReference(k) : k \in TKeys}
      \cup {RemovedCousinReference(p) : p \in Paths}
      \cup {SiblingReference(k) : k \in TKeys}

\* Option<grovedbg_grpc::Element>: absent, present without a variant, or
\* present with one
ProtoElements ==
    {<<>>, <<[element |-> <<>>]>>} \cup {<<[element |-> <<v>>]>> : v \in ProtoVariants}

InitDecode ==
    /\ \E path \in Paths, key \in TKeys, element \in ProtoElements,
          left \in OptKeys(TKeys), right \in {None, Some(NTreeKeys)} :
            last = [op |-> "received",
                    value |-> NodeUpdate(path, key, element, left, right)]
    /\ subtrees = TreeNew
    /\ panicked = FALSE
    /\ queue = <<>>
    /\ trees = NoTrees
    /\ steps = 0
    /\ subtree = SubtreeDefault
    /\ arrival = NoArrival

\* value.try_into(); last keeps the record and the result
Decode ==
    /\ last.op = "received"
    /\ last' = [op |-> "try_from", value |-> last.value,
                result |-> Node_try_from(last.value)]
    /\ steps' = steps + 1
    /\ UNCHANGED <<trees, subtree, arrival, subtrees, panicked, queue>>

NextDecode == Decode

SpecDecode == InitDecode /\ [][NextDecode]_vars

----------------------------------------------------------------------------
(* Specification SpecFetchRoot: fetch_root on the server's answer to the    *)
(* request for the root node (src/src/fetch.rs)                             *)

\* FetchError
TransportError == [tag |-> "TransportError"]

DataError(source) == [tag |-> "DataError", source |-> source]

\* variant: fetch_root that inserts the node without declaring the root
fetch_root_undeclared(response) ==
    IF ~response.ok THEN Err(TransportError)
    ELSE LET root_subtree_root_node == response.value
             node == Node_try_from(root_subtree_root_node)
         IN IF ~node.ok THEN Err(DataError(node.error))
            ELSE Ok(TreeInsert(TreeNew, <<>>, root_subtree_root_node.key, node.value))

\* fetch_root, given the outcome of client.fetch_node; the value of an Ok
\* result is the Tree after set_root and insert, with panicked set if an
\* expect() of the insert has failed
fetch_root(response) ==
    IF ~response.ok THEN Err(TransportError)
    ELSE LET root_subtree_root_node == response.value
             tree == TreeSetRoot(TreeNew, root_subtree_root_node.key)
             node == Node_try_from(root_subtree_root_node)
         IN IF ~node.ok THEN Err(DataError(node.error))
            ELSE Ok(TreeInsert(tree, <<>>, root_subtree_root_node.key, node.value))

InitFetchRoot ==
    \* client.fetch_node(..).await: a transport failure or a record
    /\ \/ last = [op |-> "fetch_node", response |-> Err("Status")]
       \/ \E path \in Paths, key \in TKeys, element \in ProtoElements,
             left \in OptKeys(TKeys), right \in {None, Some(NTreeKeys)} :
               last = [op |-> "fetch_node",
                       response |-> Ok(NodeUpdate(path, key, element, left, right))]
    /\ subtrees = TreeNew
    /\ panicked = FALSE
    /\ queue = <<>>
    /\ trees = NoTrees
    /\ steps = 0
    /\ subtree = SubtreeDefault
    /\ arrival = NoArrival

\* fetch_root returns; subtrees is the returned Tree, if there is one
FetchRoot ==
    /\ last.op = "fetch_node"
    /\ LET result == fetch_root(last.response)
       IN /\ last' = [op |-> "fetch_root", response |-> last.response,
                      result |-> IF result.ok THEN Ok(result.value.subtrees) ELSE result]
          /\ subtrees' = IF result.ok THEN result.value.subtrees ELSE subtrees
          /\ panicked' = IF result.ok THEN result.value.panicked ELSE panicked
    /\ steps' = steps + 1
    /\ UNCHANGED <<trees, subtree, arrival, queue>>

NextFetchRoot == FetchRoot

SpecFetchRoot == InitFetchRoot /\ [][NextFetchRoot]_vars

----------------------------------------------------------------------------
(* Specification SpecBorrow: lookups in the index by Path and by borrowed   *)
(* segment slice, on a Tree holding one node at each of two paths           *)

\* <[Vec<u8>] as Ord>::cmp, the ordering of the borrowed form of a Path
SliceCmp(a, b) == VecCmp(a, b)

RECURSIVE SearchNode(_, _, _)
\* the search of BTreeMap::get in one node whose keys are keys[i], keys[i+1],
\* ...: the borrowed form of each key is compared with the slice looked up,
\* the scan stops at the first key that is not smaller; the index of the
\* specification fits in one leaf node, so going down finds nothing
SearchNode(keys, slice, i) ==
    IF i > Len(keys) THEN None
    ELSE LET ord == SliceCmp(slice, keys[i])
         IN IF ord = "Greater" THEN SearchNode(keys, slice, i + 1)
            ELSE IF ord = "Equal" THEN Some(keys[i])
            ELSE None

\* self.subtrees.get(slice) with a borrowed [Vec<u8>]: the keys are stored
\* in the order of Path
get_by_slice(subs, slice) ==
    LET found == SearchNode(iter_subtrees(subs), slice, 1)
    IN IF found = None THEN None ELSE Some(subs[found[1]])

InitBorrow ==
    /\ \E p \in Paths, q \in Paths :
         /\ subtrees = TreeInsert(TreeInsert(TreeNew, p, 1, Node(Item, None, None)).subtrees,
                                  q, 1, Node(Item, None, None)).subtrees
         /\ last = [op |-> "insert", p |-> p, q |-> q]
    /\ panicked = FALSE
    /\ queue = <<>>
    /\ trees = NoTrees
    /\ steps = 0
    /\ subtree = SubtreeDefault
    /\ arrival = NoArrival

\* one lookup by Path and one by the equal borrowed slice
Lookup(path) ==
    /\ last.op = "insert"
    /\ last' = [op |-> "get", p |-> last.p, q |-> last.q, path |-> path,
                by_path |-> get_subtree(subtrees, path),
                by_slice |-> get_by_slice(subtrees, path)]
    /\ steps' = steps + 1
    /\ UNCHANGED <<trees, subtree, arrival, subtrees, panicked, queue>>

NextBorrow == \E path \in Paths : Lookup(path)

SpecBorrow == InitBorrow /\ [][NextBorrow]_vars

----------------------------------------------------------------------------
(* Specification SpecExpand: Subtrees of a Tree are expanded and collapsed  *)
(* by the presentation side while nodes are inserted, removed and unloaded  *)

\* number of operations in one run of the expand / collapse specification
MaxExpandOps == 3

\* Subtree::is_empty
is_empty(st) == DOMAIN st.nodes = {}

\* Subtree::is_expanded
is_expanded(st) == st.ui_state.expanded

\* Subtree::set_expanded
set_expanded(st) ==
    IF ~is_empty(st) THEN [st EXCEPT !.ui_state.expanded = TRUE] ELSE st

\* Subtree::set_collapsed
set_collapsed(st) == [st EXCEPT !.ui_state.expanded = FALSE]

\* nodes offered to Tree::insert here: a scalar item and a link
ExpandNodes == {Node(Item, None, None), Node(ElSubtree(Some(1)), None, None)}

InitExpand ==
    /\ subtrees = TreeNew
    /\ panicked = FALSE
    /\ queue = <<>>
    /\ trees = NoTrees
    /\ last = [op |-> "new"]
    /\ steps = 0
    /\ subtree = SubtreeDefault
    /\ arrival = NoArrival

ExpandInsert(path, key, node) ==
    /\ steps < MaxExpandOps
    /\ ~panicked
    /\ LET res == TreeInsert(subtrees, path, key, node)
       IN /\ subtrees' = res.subtrees
          /\ panicked' = res.panicked
    /\ last' = [op |-> "insert"]
    /\ steps' = steps + 1
    /\ UNCHANGED <<trees, subtree, arrival, queue>>

ExpandRemove(path, key) ==
    /\ steps < MaxExpandOps
    /\ ~panicked
    /\ subtrees' = TreeRemove(subtrees, path, key)
    /\ last' = [op |-> "remove"]
    /\ steps' = steps + 1
    /\ UNCHANGED <<trees, subtree, arrival, panicked, queue>>

ExpandClearSubtree(path) ==
    /\ steps < MaxExpandOps
    /\ ~panicked
    /\ subtrees' = clear_subtree(subtrees, path)
    /\ last' = [op |-> "clear_subtree"]
    /\ steps' = steps + 1
    /\ UNCHANGED <<trees, subtree, arrival, panicked, queue>>

\* subtree.set_expanded() on the Subtree of a SubtreeCtx
DoSetExpanded(path) ==
    /\ steps < MaxExpandOps
    /\ ~panicked
    /\ path \in DOMAIN subtrees
    /\ subtrees' = [subtrees EXCEPT ![path] = set_expanded(@)]
    /\ last' = [op |-> "set_expanded"]
    /\ steps' = steps + 1
    /\ UNCHANGED <<trees, subtree, arrival, panicked, queue>>

\* subtree.set_collapsed() on the Subtree of a SubtreeCtx
DoSetCollapsed(path) ==
    /\ steps < MaxExpandOps
    /\ ~panicked
    /\ path \in DOMAIN subtrees
    /\ subtrees' = [subtrees EXCEPT ![path] = set_collapsed(@)]
    /\ last' = [op |-> "set_collapsed"]
    /\ steps' = steps + 1
    /\ UNCHANGED <<trees, subtree, arrival, panicked, queue>>

NextExpand ==
    \/ \E path \in Paths, key \in TKeys, node \in ExpandNodes : ExpandInsert(path, key, node)
    \/ \E path \in Paths, key \in TKeys : ExpandRemove(path, key)
    \/ \E path \in Paths : ExpandClearSubtree(path)
    \/ \E path \in Paths : DoSetExpanded(path)
    \/ \E path \in Paths : DoSetCollapsed(path)

SpecExpand == InitExpand /\ [][NextExpand]_vars

----------------------------------------------------------------------------
(* Specification SpecVisible: the presentation side shows and hides child   *)
(* Subtrees of a Tree that holds a few inserted nodes                       *)

\* number of inserts, made first, and number of operations in one run of
\* the visibility specification
MaxVisInserts == 1

MaxVisOps == 4

\* Vec::starts_with on the segments of two paths
starts_with(path, prefix) ==
    Len(path) >= Len(prefix) /\ SubSeq(path, 1, Len(prefix)) = prefix

\* the keys of self.tree.subtrees.range::<Path, _>(&path..)
RangeFrom(subs, path) == {p \in DOMAIN subs : PathCmp(p, path) # "Less"}

\* Subtree::visible
visible(st) == st.ui_state.visible

\* variant: hiding a child Subtree hides that Subtree alone
set_visible_child_only(subs, path, key, visibility) ==
    LET child == Append(path, key)
    IN IF get_subtree(subs, child) # None
       THEN [subs EXCEPT ![child].ui_state.visible = visibility]
       ELSE subs

\* SetVisibility::set_visible(key, visible) of the context at path
set_visible(subs, path, key, visibility) ==
    LET child == Append(path, key)
    IN IF get_subtree(subs, child) # None
       THEN LET shown == [subs EXCEPT ![child].ui_state.visible = visibility]
            IN IF ~visibility
               THEN [p \in DOMAIN shown |->
                        IF p \in RangeFrom(shown, child) /\ starts_with(p, child)
                        THEN [shown[p] EXCEPT !.ui_state.visible = FALSE]
                        ELSE shown[p]]
               ELSE shown
       ELSE subs

RECURSIVE SetInvisible(_, _, _)
\* set_visible(key, false) for each key of keys, in the order of the keys
SetInvisible(subs, path, keys) ==
    IF keys = {} THEN subs
    ELSE LET key == CHOOSE k \in keys : \A other \in keys : k <= other
         IN SetInvisible(set_visible(subs, path, key, FALSE), path, keys \ {key})

\* SubtreeCtx::set_children_invisible of the context at path
set_children_invisible(subs, path) ==
    SetInvisible(subs, path,
                 {key \in DOMAIN subs[path].nodes : IsLink(subs[path].nodes[key].element)})

\* the paths whose Subtree is visible in one index and not in the other
VisibilityChanged(before, after) ==
    {p \in DOMAIN before : visible(before[p]) # visible(after[p])}

InitVisible ==
    /\ subtrees = TreeNew
    /\ panicked = FALSE
    /\ queue = <<>>
    /\ trees = NoTrees
    /\ last = [op |-> "new"]
    /\ steps = 0
    /\ subtree = SubtreeDefault
    /\ arrival = NoArrival

VisibleInsert(path, key, node) ==
    /\ steps < MaxVisInserts
    /\ LET res == TreeInsert(subtrees, path, key, node)
       IN /\ subtrees' = res.subtrees
          /\ panicked' = res.panicked
    /\ last' = [op |-> "insert"]
    /\ steps' = steps + 1
    /\ UNCHANGED <<trees, subtree, arrival, queue>>

\* subtree_ctx.set_child_visibility(key, visible), the context being that of
\* a Subtree of the index; last keeps the paths whose visibility changed
SetChildVisibility(path, key, visibility) ==
    /\ steps < MaxVisOps
    /\ path \in DOMAIN subtrees
    /\ subtrees' = set_visible(subtrees, path, key, visibility)
    /\ last' = [op |-> "set_child_visibility", path |-> path, key |-> key,
                visible |-> visibility,
                changed |-> VisibilityChanged(subtrees, subtrees')]
    /\ steps' = steps + 1
    /\ UNCHANGED <<trees, subtree, arrival, panicked, queue>>

\* subtree_ctx.set_children_invisible()
SetChildrenInvisible(path) ==
    /\ steps < MaxVisOps
    /\ path \in DOMAIN subtrees
    /\ subtrees' = set_children_invisible(subtrees, path)
    /\ last' = [op |-> "set_children_invisible", path |-> path]
    /\ steps' = steps + 1
    /\ UNCHANGED <<trees, subtree, arrival, panicked, queue>>

NextVisible ==
    \/ \E path \in Paths, key \in TKeys, node \in ExpandNodes :
            VisibleInsert(path, key, node)
    \/ \E path \in Paths, key \in TKeys, visibility \in BOOLEAN :
            SetChildVisibility(path, key, visibility)
    \/ \E path \in Paths : SetChildrenInvisible(path)

SpecVisible == InitVisible /\ [][NextVisible]_vars

----------------------------------------------------------------------------
(* Specification SpecAlign: levels_count and leaves_level_count             *)
(* (src/src/model/alignment.rs). An unsigned integer is modelled by the set *)
(* of the positions of its one bits: {} is 0, {k} is 2^k.                   *)

\* width of usize on a 64-bit target, and of u32
UsizeBits == 64

U32Bits == 32

\* the greatest element of a non-empty set of bit positions
TopBit(n) == CHOOSE k \in n : \A other \in n : other <= k

\* usize::ilog2: the position of the highest one bit
ilog2(n) == TopBit(n)

\* levels_count; the result is at most UsizeBits and is kept as a number
levels_count(n_nodes) ==
    IF n_nodes # {} THEN ilog2(n_nodes) + 1 ELSE 0

\* 2u32.pow(exp): overflow_checks tells whether the build panics on
\* overflow or wraps, the wrapped value of 2^exp being 0 for exp >= 32
pow2_u32(exp, overflow_checks) ==
    IF exp < U32Bits THEN Ok({exp})
    ELSE IF overflow_checks THEN Err("attempt to multiply with overflow")
    ELSE Ok({})

\* leaves_level_count
leaves_level_count(n_levels, overflow_checks) ==
    IF n_levels > 0 THEN pow2_u32(n_levels - 1, overflow_checks) ELSE Ok({})

\* node counts: zero, the powers of two, and for each power of two the next
\* count and the last count before the following power
NodeCounts ==
    {{}} \cup {{k} : k \in 0..(UsizeBits - 1)}
         \cup {{0, k} : k \in 1..(UsizeBits - 1)}
         \cup {0..k : k \in 1..(UsizeBits - 1)}

InitAlign ==
    /\ \E n_nodes \in NodeCounts : last = [op |-> "n_nodes", n_nodes |-> n_nodes]
    /\ subtrees = TreeNew
    /\ panicked = FALSE
    /\ queue = <<>>
    /\ trees = NoTrees
    /\ steps = 0
    /\ subtree = SubtreeDefault
    /\ arrival = NoArrival

\* let levels = levels_count(visible_nodes_n)
LevelsCount ==
    /\ last.op = "n_nodes"
    /\ last' = [op |-> "levels_count", n_nodes |-> last.n_nodes,
                levels |-> levels_count(last.n_nodes)]
    /\ steps' = steps + 1
    /\ UNCHANGED <<trees, subtree, arrival, subtrees, panicked, queue>>

\* let leaves = leaves_level_count(levels), in a build with or without
\* overflow checks
LeavesLevelCount(overflow_checks) ==
    /\ last.op = "levels_count"
    /\ last' = [op |-> "leaves_level_count", n_nodes |-> last.n_nodes,
                levels |-> last.levels,
                leaves |-> leaves_level_count(last.levels, overflow_checks)]
    /\ steps' = steps + 1
    /\ UNCHANGED <<trees, subtree, arrival, subtrees, panicked, queue>>

NextAlign ==
    \/ LevelsCount
    \/ \E overflow_checks \in BOOLEAN : LeavesLevelCount(overflow_checks)

SpecAlign == InitAlign /\ [][NextAlign]_vars

----------------------------------------------------------------------------
(* Specification SpecTrees: a trees::Tree under any sequence of insert and  *)
(* get_or_create_subtree_recursive                                          *)

\* number of operations in one run of the trees::Tree specification
MaxTreesOps == 3

\* nodes offered to trees::Tree::insert: a scalar, links and references to
\* the root Subtree and to Subtrees one level down
InnerTreeNodes ==
    {InnerTreeNode(value, None, None) :
        value \in {Scalar, ValueSubtree(None), ValueSubtree(Some(1))}
                    \cup {ValueReference(path, 1) : path \in SeqsUpTo(TKeys, 1)}}

InitTrees ==
    /\ \E key \in TKeys : trees = trees_new(key)
    /\ last = [op |-> "new"]
    /\ panicked = FALSE
    /\ steps = 0
    /\ queue = <<>>
    /\ subtrees = TreeNew
    /\ subtree = SubtreeDefault
    /\ arrival = NoArrival

\* tree.insert(path, key, node); last keeps the node
TreesInsert(path, key, node) ==
    /\ steps < MaxTreesOps
    /\ ~panicked
    /\ LET res == trees_insert(trees, path, key, node)
       IN /\ trees' = res.tree
          /\ panicked' = res.panicked
    /\ last' = [op |-> "insert", node |-> node]
    /\ steps' = steps + 1
    /\ UNCHANGED <<subtree, arrival, subtrees, queue>>

\* tree.get_or_create_subtree_recursive(path)
TreesGetOrCreate(path) ==
    /\ steps < MaxTreesOps
    /\ ~panicked
    /\ trees' = get_or_create_subtree_recursive(trees, path)
    /\ last' = [op |-> "get_or_create_subtree_recursive"]
    /\ steps' = steps + 1
    /\ UNCHANGED <<subtree, arrival, subtrees, panicked, queue>>

NextTrees ==
    \/ \E path \in Paths, key \in TKeys, node \in InnerTreeNodes :
            TreesInsert(path, key, node)
    \/ \E path \in Paths : TreesGetOrCreate(path)

SpecTrees == InitTrees /\ [][NextTrees]_vars

----------------------------------------------------------------------------
(* Claims about one Subtree (SpecSubtree) *)

\* C1: after every Subtree insert / remove / set_root, every key in
\* cluster_roots is a key of nodes, so iter_cluster_roots never fails
C1_ClusterRootsKnown == IterClusterRootsOk(subtree)

\* C3: after every Subtree insert / remove / set_root, no key is at the same
\* time in waitlist and a key of nodes
C3_WaitlistDisjoint == subtree.waitlist \cap DOMAIN subtree.nodes = {}

\* C5: round trip: in every reachable Subtree state, for every known key k
\* with node n, remove(k) followed by insert(k, n) yields the Subtree as it
\* was before the remove
C5_RoundTrip ==
    \A k \in DOMAIN subtree.nodes :
        SubtreeInsert(SubtreeRemove(subtree, k), k, subtree.nodes[k]) = subtree

\* C6: idempotence: from every reachable Subtree state, for every key k and
\* node n, insert(k, n) twice in a row leaves the same Subtree as once
C6_InsertIdempotent ==
    \A k \in Keys, n \in ItemNodes :
        LET once == SubtreeInsert(subtree, k, n)
        IN SubtreeInsert(once, k, n) = once

\* C17: the declared root is exempt from cluster bookkeeping: in every state
\* reachable through Subtree insert / remove / set_root, the key designated
\* as root_node is not a member of cluster_roots
C17_RootNotClusterRoot ==
    \A k \in OptIter(subtree.root_node) : k \notin subtree.cluster_roots

\* the keys listed as left or right child by at least one known node of st
ListedChildren(st) == UNION {ChildKeys(st.nodes[k]) : k \in DOMAIN st.nodes}

\* C18: waitlist exactness: in every reachable Subtree state, waitlist is
\* exactly the set of keys that are listed as left or right child by at
\* least one known node and are not themselves keys of nodes
C18_WaitlistExact ==
    subtree.waitlist = ListedChildren(subtree) \ DOMAIN subtree.nodes

\* C19: in every reachable Subtree state, no member of cluster_roots is
\* listed as left or right child by any known node of the same Subtree
C19_ClusterRootHasNoParent ==
    subtree.cluster_roots \cap ListedChildren(subtree) = {}

\* C20: Subtree remove(k) of a known key k: afterwards k is not in nodes,
\* every child of k that is still known is in cluster_roots, and no child of
\* k is in waitlist; k is in waitlist if and only if, before the call, k was
\* neither the declared root nor a cluster root, and otherwise k is in
\* neither waitlist nor cluster_roots
C20_RemoveKnown ==
    \A k \in DOMAIN subtree.nodes :
        LET after == SubtreeRemove(subtree, k)
            children == ChildKeys(subtree.nodes[k])
            plain == subtree.root_node # Some(k) /\ k \notin subtree.cluster_roots
        IN /\ k \notin DOMAIN after.nodes
           /\ children \cap DOMAIN after.nodes \subseteq after.cluster_roots
           /\ children \cap after.waitlist = {}
           /\ k \in after.waitlist <=> plain
           /\ ~plain => k \notin after.cluster_roots

----------------------------------------------------------------------------
(* Claims about out-of-order arrival (SpecArrival) *)

\* C7: once every node of a binary tree has been inserted exactly once, in
\* any order, and the root has been declared at any point, waitlist and
\* cluster_roots are empty and the Subtree is the one determined by the tree
\* alone, whatever the order was
C7_ArrivalOrderIrrelevant ==
    ArrivalDone =>
        /\ subtree.waitlist = {}
        /\ subtree.cluster_roots = {}
        /\ subtree = [SubtreeDefault EXCEPT !.root_node = arrival.root,
                                            !.nodes = arrival.tree]

\* a tree of NKeys nodes has arrived completely, its first arrival was a node
\* two levels below the root and the root was declared last
C7_Witness ==
    /\ ArrivalDone
    /\ Cardinality(DOMAIN arrival.tree) = NKeys
    /\ arrival.order[Len(arrival.order)] = None
    /\ \E k \in DOMAIN arrival.tree :
         /\ arrival.order[1] = Some(k)
         /\ \E p \in Parents(arrival.tree, k) : Parents(arrival.tree, p) # {}

----------------------------------------------------------------------------
(* Claims about the Tree (SpecTree) *)

\* the keys of st reachable, through child links between known nodes, from
\* its declared root or from one of its cluster roots
ReachableFromTracked(st) ==
    ReachableFrom(st.nodes,
                  (OptIter(st.root_node) \cup st.cluster_roots) \cap DOMAIN st.nodes,
                  {})

\* C2: in every reachable Tree state no known node of any Subtree is
\* silently orphaned: every key in nodes is reachable from the Subtree's
\* declared root through child links between known nodes, or is a cluster
\* root. The claim is stated here in its weakest reading, which also accepts
\* the keys reachable from a cluster root (the members of its cluster).
C2_NoOrphan ==
    \A path \in DOMAIN subtrees :
        DOMAIN subtrees[path].nodes \subseteq ReachableFromTracked(subtrees[path])

ParentPath(path) == SubSeq(path, 1, Len(path) - 1)

Prefixes(path) == {SubSeq(path, 1, depth) : depth \in 0..Len(path)}

\* C4: parent announces child: for every non-empty path P.k in the index the
\* Subtree at P exists and holds a node under k
C4_ParentAnnouncesChild ==
    \A path \in DOMAIN subtrees :
        path # <<>> =>
            /\ ParentPath(path) \in DOMAIN subtrees
            /\ path[Len(path)] \in DOMAIN subtrees[ParentPath(path)].nodes

\* C8: Tree::insert never fails: the Subtree at path exists after
\* populate_subtrees_chain, from every reachable Tree state
C8_InsertTotal == panicked = FALSE

\* an insert has completed on a Tree holding a populated Subtree at the
\* greatest depth and a Subtree left behind by remove / clear_subtree
C8_Witness ==
    /\ last.op = "insert"
    /\ ~panicked
    /\ \E path \in DOMAIN subtrees :
         Len(path) = MaxDepth /\ DOMAIN subtrees[path].nodes # {}
    /\ \E path \in DOMAIN subtrees : ~IterClusterRootsOk(subtrees[path])

\* C9: for every known node at (P, k) whose element is a Subtree or Sumtree
\* link, a Subtree entry exists at P.k, also after remove / clear_subtree
C9_LinkHasSubtree ==
    \A path \in DOMAIN subtrees :
        \A key \in DOMAIN subtrees[path].nodes :
            IsLink(subtrees[path].nodes[key].element)
                => Append(path, key) \in DOMAIN subtrees

\* the child Subtree of a known link node has just been unloaded after it
\* had been populated
C9_Witness ==
    /\ last.op = "clear_subtree"
    /\ last.path # <<>>
    /\ ParentPath(last.path) \in DOMAIN subtrees
    /\ LET parent == subtrees[ParentPath(last.path)]
           key == last.path[Len(last.path)]
       IN /\ key \in DOMAIN parent.nodes
          /\ IsLink(parent.nodes[key].element)
    /\ last.path \in DOMAIN subtrees
    /\ subtrees[last.path].cluster_roots # {}

\* C10: after clear_subtree(path) the Subtree at path has no nodes and no
\* cluster root that is absent from nodes, so iter_cluster_roots does not fail
C10_ClearedSubtreeInSync ==
    (last.op = "clear_subtree" /\ last.path \in DOMAIN subtrees) =>
        /\ DOMAIN subtrees[last.path].nodes = {}
        /\ IterClusterRootsOk(subtrees[last.path])

\* C11: a clear_subtree(path) step empties the node map of the Subtree at
\* path only: the entry at path still exists and has zero nodes, the node
\* under the last path segment in the parent Subtree is unchanged, the nodes
\* of the Subtree at every other path are unchanged; without a Subtree at
\* path the Tree is unchanged
C11_ClearFrame ==
    [][last'.op = "clear_subtree" =>
         LET path == last'.path
         IN IF path \in DOMAIN subtrees
            THEN /\ path \in DOMAIN subtrees'
                 /\ DOMAIN subtrees'[path].nodes = {}
                 /\ path # <<>> =>
                      \A p \in {ParentPath(path)} \cap DOMAIN subtrees :
                          /\ p \in DOMAIN subtrees'
                          /\ \A k \in {path[Len(path)]} \cap DOMAIN subtrees[p].nodes :
                               /\ k \in DOMAIN subtrees'[p].nodes
                               /\ subtrees'[p].nodes[k] = subtrees[p].nodes[k]
                 /\ \A p \in DOMAIN subtrees \ {path} :
                      /\ p \in DOMAIN subtrees'
                      /\ subtrees'[p].nodes = subtrees[p].nodes
                 /\ DOMAIN subtrees' = DOMAIN subtrees
            ELSE subtrees' = subtrees]_vars

\* a populated Subtree below the root has just been unloaded while its
\* parent still holds the placeholder or link node announcing it
C11_Witness ==
    /\ last.op = "clear_subtree"
    /\ last.path # <<>>
    /\ last.path \in DOMAIN subtrees
    /\ DOMAIN subtrees[last.path].nodes = {}
    /\ subtrees[last.path].cluster_roots \cup subtrees[last.path].waitlist # {}
    /\ ParentPath(last.path) \in DOMAIN subtrees
    /\ last.path[Len(last.path)] \in DOMAIN subtrees[ParentPath(last.path)].nodes

\* C13: Tree::insert(path, key, node) never overwrites existing data in
\* ancestors: for every insert the Tree specification can perform and every
\* proper prefix P of its path, a node that the Subtree at P already holds
\* under the next path segment is unchanged (element and child links), and
\* where there is none the insert leaves a Placeholder there
C13_InsertKeepsAncestors ==
    (steps < MaxTreeOps /\ ~panicked) =>
        \A path \in Paths, key \in TKeys, node \in TreeNodes :
            LET after == TreeInsert(subtrees, path, key, node).subtrees
            IN \A depth \in 0..(Len(path) - 1) :
                 LET P == SubSeq(path, 1, depth)
                     next == path[depth + 1]
                 IN /\ P \in DOMAIN after
                    /\ next \in DOMAIN after[P].nodes
                    /\ IF P \in DOMAIN subtrees /\ next \in DOMAIN subtrees[P].nodes
                       THEN after[P].nodes[next] = subtrees[P].nodes[next]
                       ELSE after[P].nodes[next] = new_subtree_pacehodler

\* the last step was an insert into, or below, a Subtree that had been
\* populated and emptied before (it still lists a forgotten key as cluster
\* root), so its parent already held the node announcing it
C13_Witness ==
    /\ last.op = "insert"
    /\ \E path \in DOMAIN subtrees :
         /\ path # <<>>
         /\ ParentPath(path) \in DOMAIN subtrees
         /\ path[Len(path)] \in DOMAIN subtrees[ParentPath(path)].nodes
         /\ DOMAIN subtrees[path].nodes # {}
         /\ subtrees[path].cluster_roots \ DOMAIN subtrees[path].nodes # {}

\* C16: the subtree index only grows: across every step of Tree::insert,
\* Tree::remove, Tree::clear_subtree and Tree::set_root, a path that is a key
\* of the index before the step is still a key after it
C16_IndexOnlyGrows == [][DOMAIN subtrees \subseteq DOMAIN subtrees']_vars

\* a remove has just been applied and the index still holds, at the
\* greatest depth, a Subtree whose nodes are all gone
C16_Witness ==
    /\ last.op = "remove"
    /\ \E path \in DOMAIN subtrees :
         /\ Len(path) = MaxDepth
         /\ DOMAIN subtrees[path].nodes = {}
         /\ subtrees[path].cluster_roots \cup subtrees[path].waitlist # {}

\* C21: after Tree::insert(path, key, node) where node's element is a
\* Subtree or Sumtree link with root_key = Some(r), the Subtree at path.key
\* exists, its declared root is r and r is not in its cluster_roots, for
\* every insert the Tree specification can perform (also when r was a
\* cluster root before, and when the child Subtree had another root)
C21_LinkSetsChildRoot ==
    (steps < MaxTreeOps /\ ~panicked) =>
        \A path \in Paths, key \in TKeys :
            \A node \in {n \in TreeNodes : IsLink(n.element)} :
                \A r \in OptIter(node.element.root_key) :
                    LET after == TreeInsert(subtrees, path, key, node).subtrees
                        child_path == Append(path, key)
                    IN /\ child_path \in DOMAIN after
                       /\ after[child_path].root_node = Some(r)
                       /\ r \notin after[child_path].cluster_roots

\* the last step was an insert, a known link node names r as root of its
\* child Subtree, r is the declared root there, and the child Subtree holds
\* another node that is neither a cluster root nor anyone's child: the root
\* it had been declared before
C21_Witness ==
    /\ last.op = "insert"
    /\ \E path \in DOMAIN subtrees : \E key \in DOMAIN subtrees[path].nodes :
         LET node == subtrees[path].nodes[key]
             child_path == Append(path, key)
         IN /\ IsLink(node.element)
            /\ node.element.root_key # None
            /\ child_path \in DOMAIN subtrees
            /\ subtrees[child_path].root_node = node.element.root_key
            /\ \E other \in DOMAIN subtrees[child_path].nodes :
                 /\ Some(other) # node.element.root_key
                 /\ other \notin subtrees[child_path].cluster_roots
                 /\ other \notin ListedChildren(subtrees[child_path])

\* C23: Tree::remove(path, key) changes nothing when no Subtree exists at
\* path (it creates no entry) and nothing when the Subtree at path has no
\* node under key; when it does remove a node, the index keeps its keys and
\* the nodes of the Subtree at every other path are unchanged; for every
\* remove the Tree specification can perform
C23_RemoveFrame ==
    (steps < MaxTreeOps /\ ~panicked) =>
        \A path \in Paths, key \in TKeys :
            LET after == TreeRemove(subtrees, path, key)
            IN IF path \notin DOMAIN subtrees
               THEN after = subtrees /\ path \notin DOMAIN after
               ELSE IF key \notin DOMAIN subtrees[path].nodes
                    THEN after = subtrees
                    ELSE /\ DOMAIN after = DOMAIN subtrees
                         /\ key \notin DOMAIN after[path].nodes
                         /\ \A p \in DOMAIN subtrees \ {path} :
                              after[p].nodes = subtrees[p].nodes

\* a remove has just taken one of two nodes out of a Subtree below the root
\* (the removed key is still listed as cluster root) and the parent Subtree
\* still holds the node announcing it
C23_Witness ==
    /\ last.op = "remove"
    /\ \E path \in DOMAIN subtrees :
         /\ path # <<>>
         /\ DOMAIN subtrees[path].nodes # {}
         /\ subtrees[path].cluster_roots \ DOMAIN subtrees[path].nodes # {}
         /\ ParentPath(path) \in DOMAIN subtrees
         /\ path[Len(path)] \in DOMAIN subtrees[ParentPath(path)].nodes

\* the first index at which a and b differ
FirstDifference(a, b) ==
    CHOOSE i \in 1..Len(a) : a[i] # b[i] /\ \A j \in 1..(i - 1) : a[j] = b[j]

\* C25: iter_subtrees yields every known Subtree exactly once in Path order
\* (shorter paths before longer ones, equal-length paths lexicographically
\* by segment); along the traversal path lengths never decrease and every
\* Subtree is yielded after the Subtree at its parent path
C25_IterSubtreesOrder ==
    LET it == iter_subtrees(subtrees)
    IN /\ Len(it) = Cardinality(DOMAIN subtrees)
       /\ {it[i] : i \in DOMAIN it} = DOMAIN subtrees
       /\ \A i \in DOMAIN it : \A j \in DOMAIN it :
            i < j =>
                /\ it[i] # it[j]
                /\ Len(it[i]) <= Len(it[j])
                /\ Len(it[i]) = Len(it[j]) =>
                     LET d == FirstDifference(it[i], it[j])
                     IN it[i][d] < it[j][d]
       /\ \A j \in DOMAIN it :
            it[j] # <<>> => \E i \in 1..(j - 1) : it[i] = ParentPath(it[j])

\* the index holds a path at the greatest depth that is lexicographically
\* smaller than a shorter one, so the two orders disagree on it
C25_Witness ==
    /\ Len(iter_subtrees(subtrees)) >= 4
    /\ \E p \in DOMAIN subtrees : \E q \in DOMAIN subtrees :
         /\ Len(p) = MaxDepth
         /\ Len(q) < Len(p)
         /\ VecCmp(p, q) = "Less"
         /\ PathCmp(p, q) = "Greater"

\* the greatest element of a non-empty set of numbers
SetMax(S) == CHOOSE m \in S : \A x \in S : x <= m

\* the Subtree entries of the index at depth d
AtDepth(d) == {path \in DOMAIN subtrees : Len(path) = d}

\* C26: for every reachable Tree, levels() returns exactly one entry per
\* depth d from 0 to the greatest path length in the index, in which
\* n_subtrees is the number of Subtree entries with path length d,
\* max_subtree_size is the largest node count among them, and max_clusters
\* is the largest value among them of (number of cluster roots, plus one if
\* a root key is declared)
C26_LevelsExact ==
    LET result == levels(subtrees)
        depths == {Len(path) : path \in DOMAIN subtrees}
    IN /\ result.ok
       /\ DOMAIN result.levels_info = {d + 1 : d \in 0..(IF depths = {} THEN -1 ELSE SetMax(depths))}
       /\ \A d \in depths :
            LET info == result.levels_info[d + 1]
            IN /\ info.n_subtrees = Cardinality(AtDepth(d))
               /\ info.max_subtree_size =
                      SetMax({Cardinality(DOMAIN subtrees[path].nodes) : path \in AtDepth(d)})
               /\ info.max_clusters =
                      SetMax({Cardinality(subtrees[path].cluster_roots)
                                + (IF subtrees[path].root_node = None THEN 0 ELSE 1) :
                              path \in AtDepth(d)})

\* levels() of a Tree with an entry one level below the deepest path an
\* insert can address, where a
\* level's largest cluster count comes from a Subtree with a declared root
\* and a cluster root
C26_Witness ==
    /\ levels(subtrees).ok
    /\ Len(levels(subtrees).levels_info) = MaxDepth + 2
    /\ \E path \in DOMAIN subtrees :
         /\ subtrees[path].root_node # None
         /\ subtrees[path].cluster_roots # {}
         /\ levels(subtrees).levels_info[Len(path) + 1].max_clusters
                = Cardinality(subtrees[path].cluster_roots) + 1

\* C29: in every reachable Tree state, for every known node at (P, k) whose
\* element is a Subtree or Sumtree link, the Subtree at P.k exists and its
\* declared root equals the link's root_key; in particular it has no
\* declared root when the link's root_key is None.
C29_LinkChildAgree ==
    \A P \in DOMAIN subtrees :
        \A k \in DOMAIN subtrees[P].nodes :
            LET element == subtrees[P].nodes[k].element
            IN IsLink(element) =>
                 /\ Append(P, k) \in DOMAIN subtrees
                 /\ subtrees[Append(P, k)].root_node = element.root_key

\* C30: in every reachable Tree state the index is prefix-closed: with a
\* path it holds every prefix of it down to the empty path; the fold of
\* levels() over it never indexes a depth entry that was not created, and
\* the lookup of the parent of every Subtree of the index that draw_tree may
\* visit returns an entry
C30_PrefixClosed ==
    /\ \A path \in DOMAIN subtrees : Prefixes(path) \subseteq DOMAIN subtrees
    /\ levels(subtrees).ok
    /\ \A path \in DOMAIN subtrees :
         path # <<>> => get_subtree(subtrees, ParentPath(path)) # None

\* the first operation on a new Tree was an insert at a path of MaxDepth
\* segments, and levels() reports one entry per depth down to it
C30_Witness ==
    /\ steps = 1
    /\ last.op = "insert"
    /\ \E path \in DOMAIN subtrees : Len(path) = MaxDepth
    /\ Len(levels(subtrees).levels_info) = MaxDepth + 1

----------------------------------------------------------------------------
(* Claims about fetch and unload requests (SpecFetch) *)

\* the requests waiting in q, without the history field
Requests(q) ==
    [i \in DOMAIN q |->
        IF q[i].type = "FetchNode" THEN <<q[i].path, q[i].key>> ELSE <<q[i].path>>]

\* C12: unload does not cancel a fetch: a step that applies
\* clear_subtree(path) withdraws no waiting fetch request, and when the
\* result of a fetch for (path, key) issued before that step is applied
\* afterwards, Tree::insert(path, key, node) succeeds and get_node(path, key)
\* returns that node
C12_UnloadKeepsFetch ==
    [][/\ (last'.op = "unloaded") => (Requests(queue') = Requests(Tail(queue)))
       /\ (last'.op = "fetched" /\ last'.unloaded) =>
            /\ ~panicked'
            /\ get_node(subtrees', last'.path, last'.key) = Some(last'.node)]_vars

\* the last of MaxSends requests has been processed: the result of a fetch
\* that waited while clear_subtree was applied to its path has just been
\* applied, and it brought a node that is not a plain item
C12_Witness ==
    /\ last.op = "fetched"
    /\ last.unloaded
    /\ steps = MaxSends
    /\ queue = <<>>
    /\ get_node(subtrees, last.path, last.key) = Some(last.node)
    /\ last.node.element # Item

----------------------------------------------------------------------------
(* Claims about populate_subtrees_chain on a new Tree (SpecPopulate) *)

\* C14: populate_subtrees_chain(path) on an empty Tree with a path of n
\* segments creates exactly n + 1 Subtree entries, one per prefix of path
\* including the empty one; each of the n proper prefixes holds exactly one
\* node, a Placeholder under the next path segment, and the Subtree at the
\* full path holds no node
C14_PopulateChain ==
    last.op = "populate_subtrees_chain" =>
        LET path == last.path
            n == Len(path)
        IN /\ Cardinality(DOMAIN subtrees) = n + 1
           /\ DOMAIN subtrees = Prefixes(path)
           /\ \A depth \in 0..(n - 1) :
                LET nodes == subtrees[SubSeq(path, 1, depth)].nodes
                IN /\ DOMAIN nodes = {path[depth + 1]}
                   /\ nodes[path[depth + 1]] = new_subtree_pacehodler
           /\ DOMAIN subtrees[path].nodes = {}

\* the chain has been populated for a path of MaxPopDepth segments that
\* repeats a key
C14_Witness ==
    /\ last.op = "populate_subtrees_chain"
    /\ Len(last.path) = MaxPopDepth
    /\ last.path[1] = last.path[MaxPopDepth]
    /\ last.path[1] # last.path[2]
    /\ last.path \in DOMAIN subtrees

\* C15: a newly created Tree (Tree::new, before any mutation) contains
\* exactly one Subtree entry: the root Subtree at the empty path, with no
\* nodes and no declared root, so get_subtree(empty path) returns an entry
C15_NewTreeHasRoot ==
    last.op = "new" =>
        /\ DOMAIN subtrees = {<<>>}
        /\ get_subtree(subtrees, <<>>) # None
        /\ DOMAIN subtrees[<<>>].nodes = {}
        /\ subtrees[<<>>].root_node = None

\* C15 as amended: a newly created Tree contains no Subtree entry, so
\* get_subtree(empty path) returns nothing; the root Subtree entry exists
\* once populate_subtrees_chain has run
C15_NewTreeEmpty ==
    /\ last.op = "new" =>
         /\ DOMAIN subtrees = {}
         /\ get_subtree(subtrees, <<>>) = None
    /\ last.op # "new" => get_subtree(subtrees, <<>>) # None

\* the Tree is as Tree::new left it
C15_Witness ==
    /\ last.op = "new"
    /\ steps = 0
    /\ subtrees = TreeNew

----------------------------------------------------------------------------
(* Claims about deep inserts into a new Tree (SpecDeep) *)

\* C22: while Tree::insert has only addressed deep paths of a Tree without
\* a declared root, every Placeholder synthesized in an ancestor Subtree is
\* a cluster root of that Subtree, so the root Subtree has one cluster root
\* per first path segment (two for two disjoint paths); after a node that
\* lists those placeholders as its children is inserted and designated root
\* with set_root, the root Subtree's cluster_roots is empty
C22_PlaceholdersAreClusterRoots ==
    /\ last.op = "deep_insert" =>
         /\ \A path \in DOMAIN subtrees :
              Len(path) < DeepLen =>
                  /\ PlaceholderKeys(subtrees[path]) = DOMAIN subtrees[path].nodes
                  /\ subtrees[path].cluster_roots = PlaceholderKeys(subtrees[path])
         /\ subtrees[<<>>].cluster_roots =
                {path[1] : path \in {p \in DOMAIN subtrees : p # <<>>}}
    /\ last.op = "set_root" => subtrees[<<>>].cluster_roots = {}

\* two deep inserts under paths that share no segment gave the root Subtree
\* two placeholders; the node listing both has been inserted and designated
\* root
C22_Witness ==
    /\ last.op = "set_root"
    /\ subtrees[<<>>].root_node = Some(last.key)
    /\ Cardinality(PlaceholderKeys(subtrees[<<>>])) = 2
    /\ PlaceholderKeys(subtrees[<<>>]) = ChildKeys(subtrees[<<>>].nodes[last.key])
    /\ subtrees[<<>>].cluster_roots = {}

----------------------------------------------------------------------------
(* Claims about Reference elements (SpecRef) *)

\* C24: inserting a node whose element is a Reference, to a known or
\* unknown (path, key), through Tree::insert always succeeds and neither
\* requires nor creates a Subtree entry or a node at the referenced
\* location: the subtree index gains only the prefixes of the insertion
\* path, and the only nodes that appear are the inserted one and the
\* placeholders along the insertion path
C24_ReferenceIsLazy ==
    (last.op = "insert" /\ last.node.element.tag = "Reference") =>
        /\ ~panicked
        /\ get_node(subtrees, last.path, last.key) = Some(last.node)
        /\ DOMAIN subtrees = DOMAIN last.before \cup Prefixes(last.path)
        /\ \A path \in DOMAIN subtrees : \A key \in DOMAIN subtrees[path].nodes :
             \/ get_node(last.before, path, key) = Some(subtrees[path].nodes[key])
             \/ path = last.path /\ key = last.key
             \/ /\ subtrees[path].nodes[key] = new_subtree_pacehodler
                /\ Append(path, key) \in Prefixes(last.path)

\* the last insert brought a Reference to a location in a Subtree that is
\* not in the index, into a Tree that already held a Reference to a known
\* node
C24_Witness ==
    /\ last.op = "insert"
    /\ last.node.element.tag = "Reference"
    /\ last.node.element.path \notin DOMAIN subtrees
    /\ \E path \in DOMAIN last.before : \E key \in DOMAIN last.before[path].nodes :
         LET element == last.before[path].nodes[key].element
         IN /\ element.tag = "Reference"
            /\ get_node(last.before, element.path, element.key) # None
            /\ <<element.path, element.key>> # <<path, key>>

----------------------------------------------------------------------------
(* Claims about the conversion of a received record (SpecDecode) *)

\* the first n segments of a path, or all of it when it is shorter
FirstSegments(path, n) == [i \in 1..(IF n < Len(path) THEN n ELSE Len(path)) |-> path[i]]

\* C27: translating a received record into a Node fails with a decode error
\* and yields no Node when the record's element is missing (at either level
\* of the record) or when an absolute-path reference, or an upstream
\* reference keeping the first n_keep segments of the current path, resolves
\* to the empty sequence; otherwise the result is a Node whose Reference
\* element has the last segment of the resolved sequence as key and the
\* segments before it as path.
C27_DecodeErrors ==
    last.op = "try_from" =>
        LET value == last.value
            result == last.result
            missing == value.element = <<>> \/ value.element[1].element = <<>>
        IN /\ ~result.ok => DOMAIN result = {"ok", "error"}
           /\ missing => ~result.ok /\ result.error = "NoneElement"
           /\ ~missing =>
                LET element == value.element[1].element[1]
                    resolved ==
                        IF element.kind = "AbsolutePathReference" THEN element.path
                        ELSE FirstSegments(value.path, element.n_keep)
                                \o element.path_append
                IN element.kind \in {"AbsolutePathReference", "UpstreamRootHeightReference"}
                     => IF Len(resolved) = 0
                        THEN ~result.ok /\ result.error = "EmptyPathReference"
                        ELSE /\ result.ok
                             /\ result.value.element.tag = "Reference"
                             /\ result.value.element.key = resolved[Len(resolved)]
                             /\ Append(result.value.element.path,
                                       result.value.element.key) = resolved

\* C27 witness: an upstream reference keeping no segment of a non-empty
\* current path and appending nothing has been converted, and the result is
\* the decode error for a reference without key
C27_Witness ==
    /\ last.op = "try_from"
    /\ last.value.path # <<>>
    /\ last.value.element # <<>>
    /\ last.value.element[1].element # <<>>
    /\ last.value.element[1].element[1] = UpstreamRootHeightReference(0, <<>>)
    /\ ~last.result.ok
    /\ last.result.error = "EmptyPathReference"

\* C34: resolving an UpstreamFromElementHeightReference {n_remove,
\* path_append} against the current path p yields p without its last
\* n_remove segments (nothing of p when n_remove is at least its length)
\* followed by path_append: the Reference has the last segment of that
\* sequence as key and the segments before it as path
C34_UpstreamFromElement ==
    (/\ last.op = "try_from"
     /\ last.value.element # <<>>
     /\ last.value.element[1].element # <<>>
     /\ last.value.element[1].element[1].kind = "UpstreamFromElementHeightReference") =>
        LET reference == last.value.element[1].element[1]
            p == last.value.path
            resolved == FirstSegments(p, Len(p) - reference.n_remove)
                            \o reference.path_append
        IN Len(resolved) > 0 =>
             /\ last.result.ok
             /\ last.result.value.element.tag = "Reference"
             /\ Append(last.result.value.element.path,
                       last.result.value.element.key) = resolved

----------------------------------------------------------------------------
(* Claims about fetch_root (SpecFetchRoot) *)

\* the received record lacks its element, or holds a reference that the
\* conversion rejects
DecodeFails(value) == ~Node_try_from(value).ok

\* C28: when the request succeeds and the record decodes, fetch_root returns
\* a Tree whose root Subtree has the fetched key as declared root, holds
\* exactly the fetched node, has no cluster roots and awaits exactly the
\* child keys of the fetched node; on a transport or decode error it returns
\* the error and no Tree.
C28_FetchRoot ==
    last.op = "fetch_root" =>
        LET response == last.response
            result == last.result
        IN IF ~response.ok \/ DecodeFails(response.value)
           THEN /\ ~result.ok
                /\ DOMAIN result = {"ok", "error"}
                /\ result.error.tag = IF response.ok THEN "DataError" ELSE "TransportError"
                /\ subtrees = TreeNew
           ELSE LET key == response.value.key
                    node == Node_try_from(response.value).value
                IN /\ result.ok
                   /\ ~panicked
                   /\ <<>> \in DOMAIN result.value
                   /\ LET root == result.value[<<>>]
                      IN /\ root.root_node = Some(key)
                         /\ DOMAIN root.nodes = {key}
                         /\ root.nodes[key] = node
                         /\ root.cluster_roots = {}
                         /\ root.waitlist = ChildKeys(node)

\* C28 witness: fetch_root has returned a Tree for a root node with key 1
\* that links a child Subtree and lists key 2 as its only child, and the
\* root Subtree awaits key 2 alone
C28_Witness ==
    /\ last.op = "fetch_root"
    /\ last.result.ok
    /\ LET root == subtrees[<<>>]
       IN /\ root.root_node = Some(1)
          /\ DOMAIN root.nodes = {1}
          /\ root.nodes[1].element = ElSubtree(Some(1))
          /\ root.waitlist = {2}
          /\ root.cluster_roots = {}

----------------------------------------------------------------------------
(* Claims about lookups by borrowed slice (SpecBorrow) *)

\* C31: the ordering of Path keys agrees with the ordering of their borrowed
\* segment slices: the two inserted paths p and q compare the same way as
\* Paths and as slices, and a lookup in the index by borrowed slice finds an
\* entry exactly when the lookup by the equal Path does
C31_BorrowAgrees ==
    /\ PathCmp(last.p, last.q) = SliceCmp(last.p, last.q)
    /\ last.op = "get" => last.by_slice = last.by_path

----------------------------------------------------------------------------
(* Claims about expanded Subtrees (SpecExpand) *)

\* C32: an expanded Subtree is never empty: in every state reachable
\* through set_expanded, set_collapsed and Tree insert / remove /
\* clear_subtree, a Subtree for which is_expanded() holds has at least one
\* node
C32_ExpandedNotEmpty ==
    \A path \in DOMAIN subtrees :
        is_expanded(subtrees[path]) => ~is_empty(subtrees[path])

----------------------------------------------------------------------------
(* Claims about visibility (SpecVisible) *)

----------------------------------------------------------------------------
(* Claims about levels_count and leaves_level_count (SpecAlign) *)

\* C35: for every node count n >= 1, leaves_level_count(levels_count(n)) is
\* the largest power of two not exceeding n, and for n = 0 both
\* levels_count and leaves_level_count return 0
C35_LeavesIsPowerOfTwo ==
    last.op = "leaves_level_count" =>
        IF last.n_nodes = {}
        THEN last.levels = 0 /\ last.leaves = Ok({})
        ELSE last.leaves = Ok({TopBit(last.n_nodes)})

----------------------------------------------------------------------------
(* Claims about trees::Tree (SpecTrees) *)

\* C36: inserting a node whose value is a Reference succeeds whether or not
\* the referenced path is a known Subtree: the insert is never a hard
\* failure
C36_ReferenceInsertSucceeds ==
    (last.op = "insert" /\ last.node.value.tag = "Reference") => ~panicked

\* the entries of the index at depth d
TreesAtDepth(d) == {path \in DOMAIN trees.subtrees : Len(path) = d}

\* C37: after Tree::new and any sequence of insert and
\* get_or_create_subtree_recursive calls, levels_count[d] is the number of
\* entries of subtrees whose path has length d, for every depth d that
\* occurs
C37_LevelsCount ==
    \A path \in DOMAIN trees.subtrees :
        LET d == Len(path)
        IN /\ d < Len(trees.levels_count)
           /\ trees.levels_count[d + 1] = Cardinality(TreesAtDepth(d))

\* the last of MaxTreesOps operations was the insert of a link, some depth
\* holds two entries and levels_count has a counter for every depth down to
\* MaxDepth + 1
C37_Witness ==
    /\ last.op = "insert"
    /\ last.node.value.tag = "Subtree"
    /\ ~panicked
    /\ steps = MaxTreesOps
    /\ \E d \in 1..MaxDepth : Cardinality(TreesAtDepth(d)) = 2
    /\ Len(trees.levels_count) = MaxDepth + 2

\* C38: the children sets mirror the index: every entry at a non-empty path
\* P.k has key k and parent_path P, the entry at P exists and lists k among
\* its children; every key listed in the children of an entry at P has an
\* entry at P.k; the root entry has no key
C38_ChildrenMirrorIndex ==
    /\ \A path \in DOMAIN trees.subtrees :
         /\ path # <<>> =>
              LET P == SubSeq(path, 1, Len(path) - 1)
                  k == path[Len(path)]
              IN /\ trees.subtrees[path].key = Some(k)
                 /\ trees.subtrees[path].parent_path = Some(P)
                 /\ P \in DOMAIN trees.subtrees
                 /\ k \in trees.subtrees[P].children
         /\ \A k \in trees.subtrees[path].children :
              Append(path, k) \in DOMAIN trees.subtrees
    /\ <<>> \in DOMAIN trees.subtrees
    /\ trees.subtrees[<<>>].key = None

\* get_or_create_subtree_recursive has just walked a path of MaxDepth
\* segments, and the root entry lists two children
C38_Witness ==
    /\ last.op = "get_or_create_subtree_recursive"
    /\ \E path \in DOMAIN trees.subtrees : Len(path) = MaxDepth
    /\ Cardinality(trees.subtrees[<<>>].children) = 2

====
